---------------------------- MODULE Spec2Model ----------------------------
(***************************************************************************)
(* Meeting Minutes Generator.                                              *)
(*                                                                         *)
(*   gradio_frontend.py        the client pipeline process_audio_to_minutes*)
(*   transcription+minutes.py  the backend handlers /, /transcribe and     *)
(*                             /generate-minutes (transcription.py holds   *)
(*                             the same / and /transcribe handlers)        *)
(*                                                                         *)
(* Text is modelled as a sequence of string parts whose concatenation is   *)
(* the Python string: an f-string is the concatenation of its literal      *)
(* parts and of its interpolated values.  Transcripts and minutes are      *)
(* sequences of one-character parts.  Python's None and "" are both the    *)
(* empty sequence: the code only tests such values for truthiness.         *)
(* The emoji of the source are written as ASCII tags ("[x] ", "[ok] ").    *)
(***************************************************************************)
EXTENDS Integers, Sequences, FiniteSets, TLC

\* ------------------------------------------------------------------------
\* Bounds of the model
\* ------------------------------------------------------------------------
MaxLen == 2
MaxRequests == 1

\* ------------------------------------------------------------------------
\* Program constants
\* ------------------------------------------------------------------------
BytesPerMB == 1048576
MAX_FILE_SIZE_BYTES == 26214400
FRONTEND_MAX_MB == 25
MAX_FILE_SIZE_MB == 25
PREVIEW_LEN == 200

\* ------------------------------------------------------------------------
\* Input domains
\* ------------------------------------------------------------------------
Chars == {" ", "a"}
Whitespace == {" "}

RECURSIVE SeqsUpTo(_, _)
SeqsUpTo(S, n) ==
    IF n = 0 THEN {<<>>}
    ELSE LET shorter == SeqsUpTo(S, n - 1)
         IN  shorter \cup {Append(s, c) : s \in shorter, c \in S}

Texts == SeqsUpTo(Chars, MaxLen)

\* file sizes in bytes: 3 MB, the ceiling, just above it, the last and the
\* first size around the point where the rounded size leaves 25.0, 30 MB
Sizes == {3145728, 26214400, 26214401, 26219642, 26219643, 31457280}

Paths == {<<"tmp", "meeting.wav">>, <<"standup.mp3">>}

ExcMsgs == {<<"boom">>, <<"rate limit">>}

ErrorCodes == {400, 500}

\* ------------------------------------------------------------------------
\* Python built-ins used by the code
\* ------------------------------------------------------------------------
RECURSIVE LStrip(_)
LStrip(s) ==
    IF s = <<>> THEN <<>>
    ELSE IF Head(s) \in Whitespace THEN LStrip(Tail(s)) ELSE s

RECURSIVE RStrip(_)
RStrip(s) ==
    IF s = <<>> THEN <<>>
    ELSE IF s[Len(s)] \in Whitespace THEN RStrip(SubSeq(s, 1, Len(s) - 1)) ELSE s

\* str.strip()
Strip(s) == RStrip(LStrip(s))

\* round(n / d * 100) for the exactly representable quotient n / d: Python
\* rounds the exact value, a tie to the even neighbour
RoundHalfEven(n, d) ==
    LET q == n \div d
        r == n % d
    IN  IF 2 * r < d THEN q
        ELSE IF 2 * r > d THEN q + 1
        ELSE IF q % 2 = 0 THEN q ELSE q + 1

\* str() of a float that holds h hundredths: "3.0", "0.12", "25.01"
FormatFloat(h) ==
    LET whole == ToString(h \div 100)
        frac  == h % 100
    IN  IF frac % 10 = 0 THEN whole \o "." \o ToString(frac \div 10)
        ELSE IF frac < 10 THEN whole \o ".0" \o ToString(frac)
        ELSE whole \o "." \o ToString(frac)

\* os.path.basename
Basename(path) == IF path = <<>> THEN "" ELSE path[Len(path)]


\* ------------------------------------------------------------------------
\* gradio_frontend.py: helpers
\* ------------------------------------------------------------------------

\* What one HTTP request of the client can meet.  kind: "http" (a response
\* arrived), "conn" (requests.exceptions.ConnectionError), "timeout"
\* (requests.exceptions.Timeout), "exc" (any other exception, text is its
\* message).  For a response, json tells how response.json() behaves: "ok"
\* (the expected key is there, text is its value), "nokey" (JSON without the
\* key), "notjson" (json() raises, text is the message).
Outcome(k, c, j, t) == [kind |-> k, code |-> c, json |-> j, text |-> t]

NetFailures ==
    {Outcome("conn", 0, "none", <<>>), Outcome("timeout", 0, "none", <<>>)}
        \cup {Outcome("exc", 0, "none", e) : e \in ExcMsgs}

Details == {<<"No speech detected in audio file.">>, <<"LLM returned empty response.">>}

HealthOutcomes ==
    NetFailures \cup {Outcome("http", c, "ok", <<>>) : c \in {200} \cup ErrorCodes}

ApiOutcomes ==
    NetFailures
        \cup {Outcome("http", 200, "ok", t) : t \in Texts}
        \cup {Outcome("http", 200, "nokey", <<"KeyError">>),
              Outcome("http", 200, "notjson", <<"Expecting value">>)}
        \cup {Outcome("http", c, "ok", d) : c \in ErrorCodes, d \in Details}
        \cup {Outcome("http", c, j, <<>>) : c \in ErrorCodes, j \in {"nokey", "notjson"}}

\* check_backend_health: True only for a 200 answer, False for any exception
CheckBackendHealth(o) == o.kind = "http" /\ o.code = 200

\* get_file_size_mb: round(size_bytes / (1024 * 1024), 2), held in hundredths
\* of a MB.  size_bytes * 100 / 1048576 is computed as size_bytes * 25 / 262144
\* to stay within 32 bits.
GetFileSizeMb(size_bytes) == RoundHalfEven(size_bytes * 25, BytesPerMB \div 4)

\* response.json().get("detail", "Unknown error"), or "HTTP <code>" when the
\* body is not JSON
ErrorDetail(o) ==
    IF o.json = "ok" THEN o.text
    ELSE IF o.json = "nokey" THEN <<"Unknown error">>
    ELSE <<"HTTP ", ToString(o.code)>>

ConnectMsg == <<"[x] Cannot connect to backend. Is the server running on port 8001?">>
TranscribeTimeoutMsg == <<"[x] Request timed out. The audio file might be too long.">>
MinutesTimeoutMsg == <<"[x] Request timed out. Please try again.">>

\* ApiError with the timeout caught by the connection handler
ApiError_Merged(o, failedPrefix, timeoutMsg) ==
    IF o.kind \in {"conn", "timeout"} THEN ConnectMsg
    ELSE IF o.kind = "exc" THEN <<"[x] Error: ">> \o o.text
    ELSE IF o.code = 200 THEN <<"[x] Error: ">> \o o.text
    ELSE failedPrefix \o ErrorDetail(o)

\* The branches of the two call_*_api functions that build an error message:
\* the non-200 branch and the three exception handlers; a 200 answer whose
\* body lacks the key or is not JSON raises inside the try block
ApiError(o, failedPrefix, timeoutMsg) ==
    IF o.kind = "conn" THEN ConnectMsg
    ELSE IF o.kind = "timeout" THEN timeoutMsg
    ELSE IF o.kind = "exc" THEN <<"[x] Error: ">> \o o.text
    ELSE IF o.code = 200 THEN <<"[x] Error: ">> \o o.text
    ELSE failedPrefix \o ErrorDetail(o)

ApiSuccess(o) == o.kind = "http" /\ o.code = 200 /\ o.json = "ok"

\* call_transcribe_api that never reports an error
CallTranscribeApi_NoError(o) == [transcript |-> o.text, error |-> <<>>]

\* call_transcribe_api: (transcript, None) or (None, error_message)
CallTranscribeApi(o) ==
    IF ApiSuccess(o)
    THEN [transcript |-> o.text, error |-> <<>>]
    ELSE [transcript |-> <<>>,
          error |-> ApiError(o, <<"Transcription failed: ">>, TranscribeTimeoutMsg)]

\* call_generate_minutes_api that trims the minutes it returns
CallGenerateMinutesApi_Stripped(o) ==
    IF ApiSuccess(o)
    THEN [minutes |-> Strip(o.text), error |-> <<>>]
    ELSE [minutes |-> <<>>,
          error |-> ApiError(o, <<"Minutes generation failed: ">>, MinutesTimeoutMsg)]

\* call_generate_minutes_api: (minutes, None) or (None, error_message)
CallGenerateMinutesApi(o) ==
    IF ApiSuccess(o)
    THEN [minutes |-> o.text, error |-> <<>>]
    ELSE [minutes |-> <<>>,
          error |-> ApiError(o, <<"Minutes generation failed: ">>, MinutesTimeoutMsg)]

\* ------------------------------------------------------------------------
\* gradio_frontend.py: the statuses of process_audio_to_minutes
\* ------------------------------------------------------------------------
Update(s, m) == [status |-> s, minutes |-> m]

NoFileStatus == <<"[x] Please upload an audio file first.">>
BackendDownStatus ==
    <<"[x] Backend server is not running! Please start it with: python backend.py">>
ErrorReadingStatus(e) == <<"[x] Error reading file: ">> \o e
TooLargeStatus(mb) ==
    <<"[x] File too large (", FormatFloat(mb), "MB). Maximum size is 25MB.">>
TranscribingStatus(mb) ==
    <<"[mic] **Transcribing audio...** (", FormatFloat(mb),
      "MB)\n\n*Think of your favourite song in the meanwhile*">>
ErrorStatus(e) == <<"[x] ">> \o e
TranscriptPreview(t) ==
    IF Len(t) > PREVIEW_LEN THEN SubSeq(t, 1, PREVIEW_LEN) \o <<"...">> ELSE t
TranscribedStatus(t) ==
    <<"[ok] **Transcription complete!**\n\n[memo] Preview: *">>
        \o TranscriptPreview(t) \o <<"*">>
\* the status of the previous step pasted in
GeneratingStatus_CopyPaste == TranscribedStatus(<<>>)
GeneratingStatus ==
    <<"[memo] **Generating minutes...**\n\n*Think of your favourite TV Show in the meanwhile*">>
FinalStatus(name, mb) ==
    <<"[ok] **All done!** Minutes generated successfully.\n\n[page] **File:** ",
      name, " (", FormatFloat(mb), "MB)">>

\* ------------------------------------------------------------------------
\* State
\* ------------------------------------------------------------------------
VARIABLES
    pc,            \* position of the generator process_audio_to_minutes
    audio_path,    \* its argument; <<>> when no file was uploaded
    file,          \* the uploaded file on disk: [readable, size]
    file_size_mb,  \* local: size in hundredths of a MB
    filename,      \* local
    transcript,    \* local
    minutes,       \* local
    error,         \* local
    updates,       \* the (status, minutes) pairs yielded so far
    retval,        \* the value of a return statement (StopIteration.value)
    calls          \* the network calls issued so far, with what they met

pipelineVars == <<pc, audio_path, file, file_size_mb, filename, transcript,
                  minutes, error, updates, retval, calls>>

VARIABLES
    rpc,        \* rpc[r]: position of the handler of request r
    req,        \* req[r]: the request: endpoint, upload, transcript
    text,       \* text[r]: the local transcript_text / minutes_text
    resp,       \* resp[r]: the response sent
    provider    \* provider[r]: what the provider calls of request r did

backendVars == <<rpc, req, text, resp, provider>>

vars == <<pipelineVars, backendVars>>

Call(api, o) == [api |-> api, outcome |-> o]

Issued(api) == {i \in 1..Len(calls) : calls[i].api = api}

InitPipeline ==
    /\ pc = "idle"
    /\ audio_path = <<>>
    /\ file = [readable |-> FALSE, size |-> 0]
    /\ file_size_mb = 0
    /\ filename = ""
    /\ transcript = <<>>
    /\ minutes = <<>>
    /\ error = <<>>
    /\ updates = <<>>
    /\ retval = <<>>
    /\ calls = <<>>

\* The user picks a file (or none) and clicks "Generate Minutes": Gradio
\* calls process_audio_to_minutes and iterates the generator it gets.
Click ==
    /\ pc = "idle"
    /\ \E p \in Paths \cup {<<>>}, r \in BOOLEAN, n \in Sizes :
          /\ audio_path' = p
          /\ file' = [readable |-> r, size |-> n]
    /\ pc' = "validate"
    /\ UNCHANGED <<file_size_mb, filename, transcript, minutes, error,
                   updates, retval, calls>>
    /\ UNCHANGED backendVars

\* if not audio_path: return "Please upload an audio file first.", ""
ValidateInput ==
    /\ pc = "validate"
    /\ IF audio_path = <<>>
       THEN /\ retval' = <<Update(NoFileStatus, <<>>)>>
            /\ pc' = "done"
       ELSE /\ retval' = retval
            /\ pc' = "health"
    /\ UNCHANGED <<audio_path, file, file_size_mb, filename, transcript,
                   minutes, error, updates, calls>>
    /\ UNCHANGED backendVars

\* if not check_backend_health(): return "Backend server is not running!", ""
HealthProbe ==
    /\ pc = "health"
    /\ \E o \in HealthOutcomes :
          /\ calls' = Append(calls, Call("health", o))
          /\ IF ~CheckBackendHealth(o)
             THEN /\ retval' = <<Update(BackendDownStatus, <<>>)>>
                  /\ pc' = "done"
             ELSE /\ retval' = retval
                  /\ pc' = "fileinfo"
    /\ UNCHANGED <<audio_path, file, file_size_mb, filename, transcript,
                   minutes, error, updates>>
    /\ UNCHANGED backendVars

\* if file_size_mb > 25
FileTooLarge(mb) == mb > FRONTEND_MAX_MB * 100

\* get_file_size_mb / basename, the size check and the first yield
FileInfo ==
    /\ pc = "fileinfo"
    /\ IF ~file.readable
       THEN /\ retval' = <<Update(ErrorReadingStatus(<<"No such file">>), <<>>)>>
            /\ pc' = "done"
            /\ UNCHANGED <<file_size_mb, filename, updates>>
       ELSE /\ file_size_mb' = GetFileSizeMb(file.size)
            /\ filename' = Basename(audio_path)
            /\ IF FileTooLarge(file_size_mb')
               THEN /\ retval' = <<Update(TooLargeStatus(file_size_mb'), <<>>)>>
                    /\ pc' = "done"
                    /\ UNCHANGED updates
               ELSE /\ updates' = Append(updates,
                                     Update(TranscribingStatus(file_size_mb'), <<>>))
                    /\ pc' = "transcribe"
                    /\ UNCHANGED retval
    /\ UNCHANGED <<audio_path, file, transcript, minutes, error, calls>>
    /\ UNCHANGED backendVars

\* Transcribe that goes back to the call after an error instead of returning
Transcribe_Retry ==
    /\ pc = "transcribe"
    /\ \E o \in ApiOutcomes :
          LET res == CallTranscribeApi(o) IN
          /\ calls' = Append(calls, Call("transcribe", o))
          /\ transcript' = res.transcript
          /\ error' = res.error
          /\ IF res.error # <<>>
             THEN /\ updates' = Append(updates, Update(ErrorStatus(res.error), <<>>))
                  /\ pc' = IF Len(calls) < 3 THEN "transcribe" ELSE "done"
             ELSE /\ updates' = Append(updates,
                                   Update(TranscribedStatus(res.transcript), <<>>))
                  /\ pc' = "generating"
    /\ UNCHANGED <<audio_path, file, file_size_mb, filename, minutes, retval>>
    /\ UNCHANGED backendVars

\* transcript, error = call_transcribe_api(audio_path), then the error yield
\* and return, or the "Transcription complete" yield
TranscribeStep(o) ==
    LET res == CallTranscribeApi(o) IN
    /\ calls' = Append(calls, Call("transcribe", o))
    /\ transcript' = res.transcript
    /\ error' = res.error
    /\ IF res.error # <<>>
       THEN /\ updates' = Append(updates, Update(ErrorStatus(res.error), <<>>))
            /\ pc' = "done"
       ELSE /\ updates' = Append(updates,
                             Update(TranscribedStatus(res.transcript), <<>>))
            /\ pc' = "generating"
    /\ UNCHANGED <<audio_path, file, file_size_mb, filename, minutes, retval>>

Transcribe ==
    /\ pc = "transcribe"
    /\ \E o \in ApiOutcomes : TranscribeStep(o)
    /\ UNCHANGED backendVars

\* Generating that shows the transcript in the minutes panel
Generating_WithTranscript ==
    /\ pc = "generating"
    /\ updates' = Append(updates, Update(GeneratingStatus, transcript))
    /\ pc' = "minutes"
    /\ UNCHANGED <<audio_path, file, file_size_mb, filename, transcript,
                   minutes, error, retval, calls>>
    /\ UNCHANGED backendVars

\* the "Generating minutes..." yield
Generating ==
    /\ pc = "generating"
    /\ updates' = Append(updates, Update(GeneratingStatus, <<>>))
    /\ pc' = "minutes"
    /\ UNCHANGED <<audio_path, file, file_size_mb, filename, transcript,
                   minutes, error, retval, calls>>
    /\ UNCHANGED backendVars

\* minutes, error = call_generate_minutes_api(transcript), then the error
\* yield and return, or the final yield
MinutesStep(o) ==
    LET res == CallGenerateMinutesApi(o) IN
    /\ calls' = Append(calls, Call("minutes", o))
    /\ minutes' = res.minutes
    /\ error' = res.error
    /\ IF res.error # <<>>
       THEN updates' = Append(updates, Update(ErrorStatus(res.error), <<>>))
       ELSE updates' = Append(updates,
                         Update(FinalStatus(filename, file_size_mb), res.minutes))
    /\ pc' = "done"
    /\ UNCHANGED <<audio_path, file, file_size_mb, filename, transcript, retval>>

GenerateMinutesCall ==
    /\ pc = "minutes"
    /\ \E o \in ApiOutcomes : MinutesStep(o)
    /\ UNCHANGED backendVars

NextPipeline ==
    \/ Click
    \/ ValidateInput
    \/ HealthProbe
    \/ FileInfo
    \/ Transcribe
    \/ Generating
    \/ GenerateMinutesCall

\* ------------------------------------------------------------------------
\* transcription+minutes.py (and transcription.py): the backend
\* ------------------------------------------------------------------------
Requests == 1..MaxRequests

Endpoints == {"health", "transcribe", "minutes"}

UploadErrors == {<<"stream closed">>}

\* f"{x:.2f}" of a value of h hundredths
Format2f(h) ==
    ToString(h \div 100) \o "."
        \o (IF h % 100 < 10 THEN "0" ELSE "") \o ToString(h % 100)

\* check_file_size that compares the size rounded to two decimals
CheckFileSize_Rounded(n) ==
    [is_valid |-> GetFileSizeMb(n) <= MAX_FILE_SIZE_MB * 100, size_mb |-> n]

\* check_file_size: (is_valid, size_mb); size_mb = len / 2^20 is exact in a
\* double, it is held as the byte count
CheckFileSize(n) ==
    [is_valid |-> n <= MAX_FILE_SIZE_MB * BytesPerMB, size_mb |-> n]

\* the check without the strip
NoSpeech_NoStrip(transcript_text) == transcript_text = <<>>

\* not transcript_text or len(transcript_text.strip()) == 0
NoSpeech(transcript_text) ==
    transcript_text = <<>> \/ Len(Strip(transcript_text)) = 0

\* the check without the strip
EmptyTranscript_NoStrip(t) == t = <<>>

\* not request.transcript or len(request.transcript.strip()) == 0
EmptyTranscript(t) == t = <<>> \/ Len(Strip(t)) = 0

\* the check without the strip
EmptyMinutes_NoStrip(minutes_text) == minutes_text = <<>>

\* not minutes_text or len(minutes_text.strip()) == 0
EmptyMinutes(minutes_text) ==
    minutes_text = <<>> \/ Len(Strip(minutes_text)) = 0

ReadFailedDetail(e) == <<"Failed to read uploaded file: ">> \o e
FileTooLargeDetail(size_bytes) ==
    <<"File too large (", Format2f(GetFileSizeMb(size_bytes)),
      "MB). Maximum allowed is ", ToString(MAX_FILE_SIZE_MB),
      "MB. Please upload a shorter recording or compress the audio.">>
TranscriptionFailedDetail_Generic(e) == <<"Transcription failed. Please try again.">>
TranscriptionFailedDetail(e) ==
    <<"Transcription failed: ">> \o e \o <<". Please try again.">>
NoSpeechDetail ==
    <<"No speech detected in audio file. Please ensure the recording contains clear speech.">>
EmptyTranscriptDetail ==
    <<"Transcript cannot be empty. Please provide a valid transcript.">>
MinutesFailedDetail(e) ==
    <<"Minutes generation failed: ">> \o e \o <<". Please try again.">>
EmptyResponseDetail == <<"LLM returned empty response. Please try again.">>

\* An HTTPException (detail) or a response model (text, file_size_mb)
HTTPException(code, detail) ==
    [status_code |-> code, detail |-> detail, text |-> <<>>, file_size_mb |-> 0]
Success(body, mb) ==
    [status_code |-> 200, detail |-> <<>>, text |-> body, file_size_mb |-> mb]
NoResponse == [status_code |-> 0, detail |-> <<>>, text |-> <<>>, file_size_mb |-> 0]

\* What a provider call does: it raises (text is str(e)) or returns text
ProviderOutcomes ==
    {[raised |-> TRUE, text |-> e] : e \in ExcMsgs}
        \cup {[raised |-> FALSE, text |-> t] : t \in Texts}

NoRequest == [endpoint |-> "none", readable |-> FALSE, size |-> 0, transcript |-> <<>>]

InitBackend ==
    /\ rpc = [r \in Requests |-> "idle"]
    /\ req = [r \in Requests |-> NoRequest]
    /\ text = [r \in Requests |-> <<>>]
    /\ resp = [r \in Requests |-> NoResponse]
    /\ provider = [r \in Requests |-> <<>>]

Respond(r, response) ==
    /\ resp' = [resp EXCEPT ![r] = response]
    /\ rpc' = [rpc EXCEPT ![r] = "responded"]

Goto(r, label) ==
    /\ rpc' = [rpc EXCEPT ![r] = label]
    /\ UNCHANGED resp

\* FastAPI routes a request to its handler
Receive(r) ==
    /\ rpc[r] = "idle"
    /\ \/ /\ req' = [req EXCEPT ![r] = [NoRequest EXCEPT !.endpoint = "health"]]
          /\ rpc' = [rpc EXCEPT ![r] = "root"]
       \/ \E ok \in BOOLEAN, n \in Sizes :
             /\ req' = [req EXCEPT ![r] = [endpoint |-> "transcribe", readable |-> ok,
                                           size |-> n, transcript |-> <<>>]]
             /\ rpc' = [rpc EXCEPT ![r] = "read"]
       \/ \E t \in Texts :
             /\ req' = [req EXCEPT ![r] = [NoRequest EXCEPT !.endpoint = "minutes",
                                                            !.transcript = t]]
             /\ rpc' = [rpc EXCEPT ![r] = "validate"]
    /\ UNCHANGED <<text, resp, provider>>
    /\ UNCHANGED pipelineVars

\* root
Root(r) ==
    /\ rpc[r] = "root"
    /\ Respond(r, Success(<<"healthy">>, 0))
    /\ UNCHANGED <<req, text, provider>>
    /\ UNCHANGED pipelineVars

\* transcribe_audio step 1: file_bytes = await file.read()
ReadUpload(r) ==
    /\ rpc[r] = "read"
    /\ IF req[r].readable
       THEN Goto(r, "size")
       ELSE \E e \in UploadErrors : Respond(r, HTTPException(400, ReadFailedDetail(e)))
    /\ UNCHANGED <<req, text, provider>>
    /\ UNCHANGED pipelineVars

\* transcribe_audio step 2: check_file_size
ValidateFileSize(r) ==
    /\ rpc[r] = "size"
    /\ IF CheckFileSize(req[r].size).is_valid
       THEN Goto(r, "whisper")
       ELSE Respond(r, HTTPException(400, FileTooLargeDetail(req[r].size)))
    /\ UNCHANGED <<req, text, provider>>
    /\ UNCHANGED pipelineVars

\* CallWhisper that keeps transcript_text in a module-level global shared by
\* all requests
CallWhisper_Shared(r) ==
    /\ rpc[r] = "whisper"
    /\ \E o \in ProviderOutcomes :
          /\ provider' = [provider EXCEPT ![r] = Append(@, o)]
          /\ IF o.raised
             THEN /\ Respond(r, HTTPException(500, TranscriptionFailedDetail(o.text)))
                  /\ UNCHANGED text
             ELSE /\ text' = [q \in DOMAIN text |-> o.text]
                  /\ Goto(r, "check_transcript")
    /\ UNCHANGED req
    /\ UNCHANGED pipelineVars

\* transcribe_audio step 3: groq_client.audio.transcriptions.create
CallWhisper(r) ==
    /\ rpc[r] = "whisper"
    /\ \E o \in ProviderOutcomes :
          /\ provider' = [provider EXCEPT ![r] = Append(@, o)]
          /\ IF o.raised
             THEN /\ Respond(r, HTTPException(500, TranscriptionFailedDetail(o.text)))
                  /\ UNCHANGED text
             ELSE /\ text' = [text EXCEPT ![r] = o.text]
                  /\ Goto(r, "check_transcript")
    /\ UNCHANGED req
    /\ UNCHANGED pipelineVars

\* ValidateTranscript without the empty-transcript check of step 4
ValidateTranscript_Unchecked(r) ==
    /\ rpc[r] = "check_transcript"
    /\ Respond(r, Success(Strip(text[r]), GetFileSizeMb(req[r].size)))
    /\ UNCHANGED <<req, text, provider>>
    /\ UNCHANGED pipelineVars

\* transcribe_audio steps 4 and 5
ValidateTranscript(r) ==
    /\ rpc[r] = "check_transcript"
    /\ IF NoSpeech(text[r])
       THEN Respond(r, HTTPException(400, NoSpeechDetail))
       ELSE Respond(r, Success(Strip(text[r]), GetFileSizeMb(req[r].size)))
    /\ UNCHANGED <<req, text, provider>>
    /\ UNCHANGED pipelineVars

\* generate_minutes step 1 (step 2 builds the prompt)
ValidateRequest(r) ==
    /\ rpc[r] = "validate"
    /\ IF EmptyTranscript(req[r].transcript)
       THEN Respond(r, HTTPException(400, EmptyTranscriptDetail))
       ELSE Goto(r, "llm")
    /\ UNCHANGED <<req, text, provider>>
    /\ UNCHANGED pipelineVars

\* generate_minutes step 3: groq_client.chat.completions.create
CallLLM(r) ==
    /\ rpc[r] = "llm"
    /\ \E o \in ProviderOutcomes :
          /\ provider' = [provider EXCEPT ![r] = Append(@, o)]
          /\ IF o.raised
             THEN /\ Respond(r, HTTPException(500, MinutesFailedDetail(o.text)))
                  /\ UNCHANGED text
             ELSE /\ text' = [text EXCEPT ![r] = o.text]
                  /\ Goto(r, "check_minutes")
    /\ UNCHANGED req
    /\ UNCHANGED pipelineVars

\* generate_minutes steps 4 and 5
ValidateMinutes(r) ==
    /\ rpc[r] = "check_minutes"
    /\ IF EmptyMinutes(text[r])
       THEN Respond(r, HTTPException(500, EmptyResponseDetail))
       ELSE Respond(r, Success(Strip(text[r]), 0))
    /\ UNCHANGED <<req, text, provider>>
    /\ UNCHANGED pipelineVars

NextBackend ==
    \E r \in Requests :
        \/ Receive(r)
        \/ Root(r)
        \/ ReadUpload(r)
        \/ ValidateFileSize(r)
        \/ CallWhisper(r)
        \/ ValidateTranscript(r)
        \/ ValidateRequest(r)
        \/ CallLLM(r)
        \/ ValidateMinutes(r)

\* ------------------------------------------------------------------------
\* Specifications
\* ------------------------------------------------------------------------
Init == InitPipeline /\ InitBackend

\* one run of the client pipeline against an arbitrary backend
Next == NextPipeline

Spec == Init /\ [][Next]_vars

\* the backend serving MaxRequests concurrent requests
SpecBackend == Init /\ [][NextBackend]_vars

\* Two requests in flight at once: uvicorn runs the handlers of the app
\* concurrently, and interference between two handlers shows with two.
Clients == {1, 2}

InitConcurrent ==
    /\ InitPipeline
    /\ rpc = [r \in Clients |-> "idle"]
    /\ req = [r \in Clients |-> NoRequest]
    /\ text = [r \in Clients |-> <<>>]
    /\ resp = [r \in Clients |-> NoResponse]
    /\ provider = [r \in Clients |-> <<>>]

NextConcurrent ==
    \E r \in Clients :
        \/ Receive(r)
        \/ Root(r)
        \/ ReadUpload(r)
        \/ ValidateFileSize(r)
        \/ CallWhisper(r)
        \/ ValidateTranscript(r)
        \/ ValidateRequest(r)
        \/ CallLLM(r)
        \/ ValidateMinutes(r)

SpecConcurrent == InitConcurrent /\ [][NextConcurrent]_vars

\* ------------------------------------------------------------------------
\* The pipeline run against this backend: request 1 is its /transcribe
\* call, request 2 its /generate-minutes call
\* ------------------------------------------------------------------------

\* what requests sees of a response of the backend: FastAPI sends the
\* response model, or {"detail": ...} for an HTTPException
AsOutcome(response) ==
    IF response.status_code = 200
    THEN Outcome("http", 200, "ok", response.text)
    ELSE Outcome("http", response.status_code, "ok", response.detail)

\* call_transcribe_api: requests.post(".../transcribe", files=files)
SendTranscribe ==
    /\ pc = "transcribe"
    /\ rpc[1] = "idle"
    /\ \E ok \in BOOLEAN :
          req' = [req EXCEPT ![1] = [endpoint |-> "transcribe", readable |-> ok,
                                     size |-> file.size, transcript |-> <<>>]]
    /\ rpc' = [rpc EXCEPT ![1] = "read"]
    /\ pc' = "wait_transcribe"
    /\ UNCHANGED <<text, resp, provider>>
    /\ UNCHANGED <<audio_path, file, file_size_mb, filename, transcript,
                   minutes, error, updates, retval, calls>>

\* the response of /transcribe arrives
ReceiveTranscribeResponse ==
    /\ pc = "wait_transcribe"
    /\ rpc[1] = "responded"
    /\ TranscribeStep(AsOutcome(resp[1]))
    /\ UNCHANGED backendVars

\* the connection fails, the 120 s timeout expires or another exception is
\* raised while the call is in flight
TranscribeNetFailure ==
    /\ pc = "wait_transcribe"
    /\ \E o \in NetFailures : TranscribeStep(o)
    /\ UNCHANGED backendVars

\* call_generate_minutes_api: requests.post(".../generate-minutes", json=...)
SendMinutes ==
    /\ pc = "minutes"
    /\ rpc[2] = "idle"
    /\ req' = [req EXCEPT ![2] = [NoRequest EXCEPT !.endpoint = "minutes",
                                                   !.transcript = transcript]]
    /\ rpc' = [rpc EXCEPT ![2] = "validate"]
    /\ pc' = "wait_minutes"
    /\ UNCHANGED <<text, resp, provider>>
    /\ UNCHANGED <<audio_path, file, file_size_mb, filename, transcript,
                   minutes, error, updates, retval, calls>>

\* the response of /generate-minutes arrives
ReceiveMinutesResponse ==
    /\ pc = "wait_minutes"
    /\ rpc[2] = "responded"
    /\ MinutesStep(AsOutcome(resp[2]))
    /\ UNCHANGED backendVars

\* the connection fails, the 60 s timeout expires or another exception is
\* raised while the call is in flight
MinutesNetFailure ==
    /\ pc = "wait_minutes"
    /\ \E o \in NetFailures : MinutesStep(o)
    /\ UNCHANGED backendVars

NextE2E ==
    \/ Click
    \/ ValidateInput
    \/ HealthProbe
    \/ FileInfo
    \/ SendTranscribe
    \/ ReceiveTranscribeResponse
    \/ TranscribeNetFailure
    \/ Generating
    \/ SendMinutes
    \/ ReceiveMinutesResponse
    \/ MinutesNetFailure
    \/ \E r \in Clients :
          \/ ReadUpload(r)
          \/ ValidateFileSize(r)
          \/ CallWhisper(r)
          \/ ValidateTranscript(r)
          \/ ValidateRequest(r)
          \/ CallLLM(r)
          \/ ValidateMinutes(r)

SpecE2E == InitConcurrent /\ [][NextE2E]_vars

\* ------------------------------------------------------------------------
\* Vocabulary of the properties
\* ------------------------------------------------------------------------
Last(s) == s[Len(s)]

Range(s) == {s[i] : i \in 1..Len(s)}

\* the Python string a sequence of parts stands for
RECURSIVE Str(_)
Str(s) == IF s = <<>> THEN "" ELSE Head(s) \o Str(Tail(s))

\* e occurs in s as a run of consecutive parts
Contains(s, e) ==
    \E i \in 0..(Len(s) - Len(e)) : SubSeq(s, i + 1, i + Len(e)) = e

\* empty or whitespace-only text
Blank(t) == \A i \in 1..Len(t) : t[i] \in Whitespace

\* every error status opens with the cross mark, the final status with the
\* "All done" line
IsErrorStatus(s) ==
    s # <<>> /\ s[1] \in {"[x] ", NoFileStatus[1], BackendDownStatus[1],
                          "[x] Error reading file: ", "[x] File too large ("}
IsSuccessStatus(s) == s # <<>> /\ s[1] = FinalStatus("", 0)[1]

TheCall(api) == calls[CHOOSE i \in Issued(api) : TRUE]

HealthPassed == Issued("health") # {} /\ CheckBackendHealth(TheCall("health").outcome)

FailureClass(o) ==
    IF o.kind = "timeout" THEN "timeout"
    ELSE IF o.kind = "conn" THEN "unreachable"
    ELSE IF o.kind = "http" /\ o.code # 200 THEN "non200"
    ELSE "other"

FailureClasses == {"timeout", "unreachable", "non200"}

OutcomesOf(api) == IF api = "health" THEN HealthOutcomes ELSE ApiOutcomes

\* the status the pipeline computes when the call of api meets the failure o
StatusFor(api, o) ==
    IF api = "health" THEN BackendDownStatus
    ELSE IF api = "transcribe" THEN ErrorStatus(CallTranscribeApi(o).error)
    ELSE ErrorStatus(CallGenerateMinutesApi(o).error)

\* the status the finished run arrived at: its last yield, or the value of
\* its return statement when it yielded nothing
Reported ==
    IF updates # <<>> THEN Last(updates).status
    ELSE IF retval # <<>> THEN retval[1].status
    ELSE <<>>

\* the last call of the finished run failed in one of the three ways, and
\* every failure of another of these ways at that call has another status
FailureDistinctAt(apis) ==
    (pc = "done" /\ calls # <<>> /\ Last(calls).api \in apis
        /\ FailureClass(Last(calls).outcome) \in FailureClasses)
    => \A o \in OutcomesOf(Last(calls).api) :
          (FailureClass(o) \in FailureClasses
              /\ FailureClass(o) # FailureClass(Last(calls).outcome))
          => Str(StatusFor(Last(calls).api, o)) # Str(Reported)

\* ------------------------------------------------------------------------
\* Properties of the client pipeline (Spec)
\* ------------------------------------------------------------------------

\* C1: a readable file of more than 25 * 1024 * 1024 bytes is rejected before
\* any network call: its run never issues a health probe, a transcription
\* call or a minutes call.
C1_OversizeRejectedBeforeAnyCall ==
    (pc # "idle" /\ audio_path # <<>> /\ file.readable
        /\ file.size > MAX_FILE_SIZE_BYTES)
    => calls = <<>>

\* C2: with a file provided and a failing health probe, the finished run has
\* yielded the "Backend server is not running" status with empty minutes and
\* has issued neither the transcription call nor the minutes call.
C2_BackendDownDelivered ==
    (pc = "done" /\ audio_path # <<>> /\ Issued("health") # {} /\ ~HealthPassed)
    => /\ \E i \in 1..Len(updates) : updates[i] = Update(BackendDownStatus, <<>>)
       /\ Issued("transcribe") = {}
       /\ Issued("minutes") = {}

\* C3: every finished run has yielded a non-empty sequence of updates whose
\* last element is a success status with the minutes or an error status with
\* empty minutes.
C3_EndsWithTerminalUpdate ==
    pc = "done"
    => /\ updates # <<>>
       /\ \/ IsSuccessStatus(Last(updates).status)
          \/ IsErrorStatus(Last(updates).status) /\ Last(updates).minutes = <<>>

\* C4 as stated: at the health probe, the transcription call and the minutes
\* call alike, a timeout, a refused connection and a non-200 answer lead to
\* three different statuses.
C4_DistinctAtEveryStep == FailureDistinctAt({"health", "transcribe", "minutes"})

\* C4: at the transcription call and at the minutes call, a timeout, a
\* refused connection and a non-200 answer lead to three different error
\* statuses (at the health probe all three give the same result).
C4_DistinctAtApiCalls ==
    /\ FailureDistinctAt({"transcribe", "minutes"})
    /\ (pc = "done" /\ Issued("health") # {} /\ ~HealthPassed)
       => Reported = BackendDownStatus

C4_Witness ==
    /\ pc = "done"
    /\ Issued("minutes") # {}
    /\ TheCall("minutes").outcome.kind = "timeout"
    /\ Reported = ErrorStatus(MinutesTimeoutMsg)

\* C5: a minutes call is preceded by a transcription call that returned 200
\* with a transcript; after a failed transcription call an error status has
\* been yielded and no minutes call is issued.
C5_MinutesOnlyAfterTranscript ==
    /\ \A j \in Issued("minutes") :
          \E i \in Issued("transcribe") : i < j /\ ApiSuccess(calls[i].outcome)
    /\ \A i \in Issued("transcribe") :
          ~ApiSuccess(calls[i].outcome)
          => /\ Issued("minutes") = {}
             /\ updates # <<>>
             /\ IsErrorStatus(Last(updates).status)
             /\ pc = "done"

C5_Witness ==
    /\ pc = "done"
    /\ Issued("transcribe") # {}
    /\ TheCall("transcribe").outcome.code = 500
    /\ Issued("minutes") = {}
    /\ Len(updates) = 2

ErrorEmitted == \E i \in 1..Len(updates) : IsErrorStatus(updates[i].status)

\* C6: each of the three calls is issued at most once in a run, and once an
\* error status has been yielded no call is issued and nothing is yielded.
C6_NoRetry ==
    /\ [](\A api \in {"health", "transcribe", "minutes"} :
             Cardinality(Issued(api)) <= 1)
    /\ [][ErrorEmitted => (calls' = calls /\ updates' = updates)]_vars

C6_Witness ==
    /\ ErrorEmitted
    /\ Cardinality(Issued("minutes")) = 1
    /\ Cardinality(Issued("transcribe")) = 1
    /\ Cardinality(Issued("health")) = 1

\* h hundredths of a MB is the size of n bytes to within half a hundredth
NearestHundredth(h, n) ==
    LET diff == h * (BytesPerMB \div 4) - n * 25
    IN  2 * diff <= BytesPerMB \div 4 /\ 2 * diff >= -(BytesPerMB \div 4)

\* C7: after a passed health probe, a 200 transcription answer and a 200
\* minutes answer carrying M, the last update is the success status, which
\* carries the base name of the file and its size in MB, paired with M.
C7_SuccessCarriesFileAndMinutes ==
    (pc = "done" /\ HealthPassed
        /\ Issued("transcribe") # {} /\ ApiSuccess(TheCall("transcribe").outcome)
        /\ Issued("minutes") # {} /\ ApiSuccess(TheCall("minutes").outcome))
    => /\ updates # <<>>
       /\ IsSuccessStatus(Last(updates).status)
       /\ Last(updates).minutes = TheCall("minutes").outcome.text
       /\ audio_path[Len(audio_path)] \in Range(Last(updates).status)
       /\ \E h \in 0..(FRONTEND_MAX_MB * 100) :
             /\ NearestHundredth(h, file.size)
             /\ FormatFloat(h) \in Range(Last(updates).status)

C7_Witness ==
    /\ pc = "done"
    /\ updates # <<>>
    /\ IsSuccessStatus(Last(updates).status)
    /\ Last(updates).minutes = <<" ", "a">>
    /\ file.size = 3145728
    /\ "3.0" \in Range(Last(updates).status)

\* ------------------------------------------------------------------------
\* Properties of the backend (SpecBackend)
\* ------------------------------------------------------------------------
Raised(r) == provider[r] # <<>> /\ Last(provider[r]).raised
Returned(r) == provider[r] # <<>> /\ ~Last(provider[r]).raised

\* C8: a /generate-minutes request with an empty or whitespace-only
\* transcript is answered 400 and the provider is never called for it.
C8_BlankTranscriptRejected ==
    \A r \in Requests :
        (req[r].endpoint = "minutes" /\ Blank(req[r].transcript))
        => /\ provider[r] = <<>>
           /\ rpc[r] \in {"validate", "responded"}
           /\ rpc[r] = "responded" => resp[r].status_code = 400

C8_Witness ==
    \E r \in Requests :
        /\ req[r].endpoint = "minutes"
        /\ req[r].transcript = <<" ", " ">>
        /\ rpc[r] = "responded"
        /\ resp[r].status_code = 400

\* C9: a /transcribe request whose provider returned an empty or
\* whitespace-only text is answered with the 400 "No speech detected" error,
\* never with a 200 and never with a 500.
C9_NoSpeechIs400 ==
    \A r \in Requests :
        (req[r].endpoint = "transcribe" /\ Returned(r)
            /\ Blank(Last(provider[r]).text) /\ rpc[r] = "responded")
        => /\ resp[r].status_code = 400
           /\ resp[r].detail = NoSpeechDetail
           /\ resp[r].text = <<>>

C9_Witness ==
    \E r \in Requests :
        /\ req[r].endpoint = "transcribe"
        /\ Returned(r)
        /\ Last(provider[r]).text = <<" ">>
        /\ rpc[r] = "responded"
        /\ resp[r].status_code = 400

\* C10: when the provider call of a /transcribe or /generate-minutes request
\* raised an exception with message E, the request is answered 500 with a
\* detail that contains E.
C10_ProviderExceptionIs500 ==
    \A r \in Requests :
        (req[r].endpoint \in {"transcribe", "minutes"} /\ Raised(r))
        => /\ rpc[r] = "responded"
           /\ resp[r].status_code = 500
           /\ Contains(resp[r].detail, Last(provider[r]).text)

C10_Witness ==
    \E r \in Requests :
        /\ req[r].endpoint = "transcribe"
        /\ Raised(r)
        /\ Last(provider[r]).text = <<"rate limit">>
        /\ resp[r].status_code = 500

\* C11: a /transcribe upload of more than 25 MB is answered 400 and the
\* provider is never called for it: the handler is still before its size check
\* or has responded.
C11_OversizeUploadRejected ==
    \A r \in DOMAIN rpc :
        (req[r].endpoint = "transcribe" /\ req[r].size > MAX_FILE_SIZE_BYTES)
        => /\ provider[r] = <<>>
           /\ rpc[r] \in {"read", "size", "responded"}
           /\ rpc[r] = "responded" => resp[r].status_code = 400

C11_Witness ==
    \E r \in DOMAIN rpc :
        /\ req[r].endpoint = "transcribe"
        /\ req[r].readable
        /\ req[r].size = MAX_FILE_SIZE_BYTES + 1
        /\ rpc[r] = "responded"
        /\ resp[r].status_code = 400
        /\ resp[r].detail = FileTooLargeDetail(req[r].size)

\* C12: a /generate-minutes request whose provider returned an empty or
\* whitespace-only text is answered 500 with the "empty response" detail,
\* which differs from the detail of every provider exception; it is never
\* answered 200.
C12_EmptyGenerationIs500 ==
    \A r \in DOMAIN rpc :
        (req[r].endpoint = "minutes" /\ Returned(r)
            /\ Blank(Last(provider[r]).text) /\ rpc[r] = "responded")
        => /\ resp[r].status_code = 500
           /\ resp[r].detail = EmptyResponseDetail
           /\ resp[r].text = <<>>
           /\ \A e \in ExcMsgs \cup Texts :
                 Str(resp[r].detail) # Str(MinutesFailedDetail(e))

C12_Witness ==
    \E r \in DOMAIN rpc :
        /\ req[r].endpoint = "minutes"
        /\ Returned(r)
        /\ Last(provider[r]).text = <<" ", " ">>
        /\ rpc[r] = "responded"
        /\ resp[r].status_code = 500

\* ------------------------------------------------------------------------
\* Properties of concurrent requests (SpecConcurrent)
\* ------------------------------------------------------------------------

\* everything the backend holds for request q
Slot(q) == <<rpc[q], req[q], text[q], resp[q], provider[q]>>

\* the responses a request gets when it is the only one the backend serves,
\* from its own input and from what the provider replied to it (replies);
\* a failing upload stream contributes its own message
AloneResponses(request, replies) ==
    IF request.endpoint = "health" THEN {Success(<<"healthy">>, 0)}
    ELSE IF request.endpoint = "transcribe"
    THEN IF ~request.readable
         THEN {HTTPException(400, ReadFailedDetail(e)) : e \in UploadErrors}
         ELSE IF request.size > MAX_FILE_SIZE_BYTES
         THEN {HTTPException(400, FileTooLargeDetail(request.size))}
         ELSE IF replies = <<>> THEN {}
         ELSE IF replies[1].raised
         THEN {HTTPException(500, TranscriptionFailedDetail(replies[1].text))}
         ELSE IF Blank(replies[1].text) THEN {HTTPException(400, NoSpeechDetail)}
         ELSE {Success(Strip(replies[1].text), GetFileSizeMb(request.size))}
    ELSE IF Blank(request.transcript)
         THEN {HTTPException(400, EmptyTranscriptDetail)}
         ELSE IF replies = <<>> THEN {}
         ELSE IF replies[1].raised
         THEN {HTTPException(500, MinutesFailedDetail(replies[1].text))}
         ELSE IF Blank(replies[1].text) THEN {HTTPException(500, EmptyResponseDetail)}
         ELSE {Success(Strip(replies[1].text), 0)}

\* C13: under every interleaving of the handlers, each step touches the state
\* of one request only, and the response to a request is the one it gets
\* alone, a function of its own input and of the provider's reply to it.
C13_NoSharedState ==
    /\ [](\A r \in DOMAIN rpc :
             rpc[r] = "responded"
             => /\ resp[r] \in AloneResponses(req[r], provider[r])
                /\ Len(provider[r]) <= 1)
    /\ [][\E r \in DOMAIN rpc :
             \A q \in DOMAIN rpc \ {r} : Slot(q)' = Slot(q)]_vars

C13_Witness ==
    /\ req[1].endpoint = "transcribe" /\ req[2].endpoint = "minutes"
    /\ rpc[1] = "responded" /\ rpc[2] = "responded"
    /\ resp[1].status_code = 200 /\ resp[2].status_code = 200
    /\ resp[1].text = <<"a", "a">> /\ resp[2].text = <<"a">>

\* ------------------------------------------------------------------------
\* Properties of the sequence of updates (Spec)
\* ------------------------------------------------------------------------
StatusKind(s) ==
    IF IsErrorStatus(s) THEN "error"
    ELSE IF s[1] = "[mic] **Transcribing audio...** (" THEN "transcribing"
    ELSE IF s[1] = "[ok] **Transcription complete!**\n\n[memo] Preview: *"
    THEN "transcribed"
    ELSE IF s[1] = "[memo] **Generating minutes...**\n\n*Think of your favourite TV Show in the meanwhile*"
    THEN "generating"
    ELSE IF IsSuccessStatus(s) THEN "done"
    ELSE "unknown"

StatusOrder == <<"transcribing", "transcribed", "generating", "done">>

Kinds == [i \in 1..Len(updates) |-> StatusKind(updates[i].status)]

\* C14: the statuses yielded so far are a prefix of transcribing, transcribed,
\* generating, done, optionally followed by one error status: none is yielded
\* twice and an error status is the last one.
C14_StatusOrder ==
    \E n \in 0..Len(StatusOrder) :
        \/ Kinds = SubSeq(StatusOrder, 1, n)
        \/ Kinds = Append(SubSeq(StatusOrder, 1, n), "error")

C14_Witness ==
    /\ pc = "done"
    /\ Kinds = StatusOrder

\* C15: the client's size check lets a file through (the first status is
\* yielded) exactly when the server's check_file_size accepts its byte size.
C15_SameSizesAccepted ==
    (pc \in {"transcribe", "generating", "minutes", "done"}
        /\ audio_path # <<>> /\ HealthPassed /\ file.readable)
    => (updates # <<>> <=> CheckFileSize(file.size).is_valid)

\* C16: only the final success update carries minutes: every other update,
\* progress or error, has empty minutes.
C16_MinutesOnlyInFinalUpdate ==
    \A i \in 1..Len(updates) :
        updates[i].minutes # <<>>
        => /\ i = Len(updates)
           /\ StatusKind(updates[i].status) = "done"
           /\ pc = "done"

C16_Witness ==
    /\ pc = "done"
    /\ Len(updates) = 4
    /\ updates[4].minutes = <<"a", " ">>
    /\ transcript = <<"a">>
    /\ \A i \in 1..3 : updates[i].minutes = <<>>

\* ------------------------------------------------------------------------
\* Properties of the pipeline run against this backend (SpecE2E)
\* ------------------------------------------------------------------------
Trimmed(t) == t # <<>> /\ t[1] \notin Whitespace /\ t[Len(t)] \notin Whitespace

\* C17: the transcript the pipeline sends to /generate-minutes is the trimmed,
\* non-empty transcript of the 200 response of /transcribe, and no request is
\* answered with the 400 "Transcript cannot be empty" error.
C17_EmptyTranscriptUnreachable ==
    /\ req[2].endpoint = "minutes"
       => /\ resp[1].status_code = 200
          /\ req[2].transcript = resp[1].text
          /\ Trimmed(req[2].transcript)
    /\ \A r \in DOMAIN rpc : resp[r].detail # EmptyTranscriptDetail
    /\ \A i \in 1..Len(updates) :
          ~Contains(updates[i].status, EmptyTranscriptDetail)

C17_Witness ==
    /\ pc = "done"
    /\ updates # <<>>
    /\ Returned(1)
    /\ Last(provider[1]).text = <<" ", "a">>
    /\ req[2].endpoint = "minutes"
    /\ req[2].transcript = <<"a">>
    /\ resp[2].status_code = 200
    /\ StatusKind(Last(updates).status) = "done"

=============================================================================
